---- MODULE Spec2Model ----
(***************************************************************************)
(* A model of main.py: the command-line entry point main, the form built   *)
(* by create_gui with its two click handlers, transcribe_audio and         *)
(* save_transcription.  The transcription model (WhisperModel), torch, the *)
(* GUI toolkit and the file system are the environment: their outcomes are *)
(* nondeterministic choices.                                               *)
(*                                                                         *)
(* Python strings that the program builds are sequences of one-character   *)
(* strings, so that formatting, stripping and joining are computed.        *)
(* Strings the program only passes along (paths, device names) are TLA+    *)
(* strings.  Seconds are fixed-point numbers in tenths of a second.        *)
(***************************************************************************)
EXTENDS Integers, Sequences, FiniteSets, TLC

\* ------------------------------------------------------------------ bounds

\* The longest list of segments the model returns for the long recording.
MaxSegs == 2

\* The number of button clicks in one session of the form.
MaxClicks == 3

\* ----------------------------------------------------------------- strings

NL == "\n"

\* Python None where a str path is expected, and where a str text is expected.
NoneStr == "<None>"
NoneText == <<"<None>">>

\* str.strip() removes these from both ends.
Whitespace == {" ", NL}

DigitChars == <<"0", "1", "2", "3", "4", "5", "6", "7", "8", "9">>

\* "%d" % n
RECURSIVE Dec(_)
Dec(n) ==
    IF n < 0 THEN <<"-">> \o Dec(-n)
    ELSE IF n < 10 THEN <<DigitChars[n + 1]>>
    ELSE Dec(n \div 10) \o <<DigitChars[(n % 10) + 1]>>

\* "%02d" % n
Pad2(n) == IF n >= 0 /\ n < 10 THEN <<"0">> \o Dec(n) ELSE Dec(n)

\* int(seconds): truncation toward zero of a number given in tenths.
IntOf(tenths) == IF tenths >= 0 THEN tenths \div 10 ELSE -((-tenths) \div 10)

\* str(datetime.timedelta(seconds=total)): the days, when there are any, then
\* hours without padding, minutes and seconds on two digits.
TimedeltaStr(total) ==
    LET days == total \div 86400
        secs == total % 86400
        hh   == secs \div 3600
        mm   == (secs % 3600) \div 60
        ss   == secs % 60
        hms  == Dec(hh) \o <<":">> \o Pad2(mm) \o <<":">> \o Pad2(ss)
        plural == IF days = 1 \/ days = -1 THEN <<>> ELSE <<"s">>
    IN  IF days # 0
        THEN Dec(days) \o <<" ", "d", "a", "y">> \o plural \o <<",", " ">> \o hms
        ELSE hms

format_timestamp(seconds) == TimedeltaStr(IntOf(seconds))

RECURSIVE LStrip(_)
LStrip(s) == IF s # <<>> /\ Head(s) \in Whitespace THEN LStrip(Tail(s)) ELSE s

RECURSIVE RStrip(_)
RStrip(s) ==
    IF s # <<>> /\ s[Len(s)] \in Whitespace
    THEN RStrip(SubSeq(s, 1, Len(s) - 1))
    ELSE s

\* str.strip()
Strip(s) == RStrip(LStrip(s))

\* FormatSegment without the strip() of the text.
FormatSegment_NoStrip(segment) ==
    <<"(">> \o format_timestamp(segment.start) \o <<")", " ">> \o segment.text

\* f"({timestamp}) {text}"
FormatSegment(segment) ==
    <<"(">> \o format_timestamp(segment.start) \o <<")", " ">> \o Strip(segment.text)

\* "\n".join(parts)
RECURSIVE Join(_)
Join(parts) ==
    IF parts = <<>> THEN <<>>
    ELSE IF Len(parts) = 1 THEN parts[1]
    ELSE parts[1] \o <<NL>> \o Join(Tail(parts))

\* f"An error occurred: {str(e)}"
ErrPrefix ==
    <<"A", "n", " ", "e", "r", "r", "o", "r", " ",
      "o", "c", "c", "u", "r", "r", "e", "d", ":", " ">>

ErrorString(msg) == ErrPrefix \o msg

\* Python truthiness of a str or None.
Truthy(text) == text # <<>> /\ text # NoneText

\* ------------------------------------------------------------- environment

\* Two invocations of the program on the same arguments and the same initial
\* file system, each in a world of its own: one without --gui, one with it.
Runs == {"cli", "gui"}

AudioPaths == {NoneStr, "missing.wav", "a.wav", "long.wav"}
OutputPaths == {NoneStr, "", "out.txt"}
Devices == {"cuda", "cpu"}
ComputeTypes == {"float16", "int8"}

\* os.path.exists(path)
Exists(path) == path \in {"a.wav", "long.wav"}

\* Python truthiness of a path argument (None and "" are falsy).
TruthyPath(path) == path # NoneStr /\ path # ""

\* Segment starts, in tenths of a second: 5.9 s, 1 h 1 min 1.5 s, and
\* 2 days 1 h 0.9 s.
Starts == {59, 36615, 1764009}

\* Segment texts as the model returns them.
Texts == {<<" ", "a">>, <<"a", NL, "b", " ">>, <<NL>>}

Segments == [start : Starts, text : Texts]

SeqsUpTo(S, n) == UNION {[1..k -> S] : k \in 0..n}

\* What model.transcribe may yield for a readable audio file.
PossibleSegments(audio_path) ==
    IF audio_path = "long.wav" THEN SeqsUpTo(Segments, MaxSegs)
    ELSE IF audio_path = "a.wav"
    THEN {<<>>, <<[start |-> 59, text |-> <<" ", "a">>]>>}
    ELSE {}

\* The places where the environment may raise an exception.
AllFaults ==
    {"cuda_check", "progress", "load_model", "transcribe", "segments",
     "format", "open", "encode", "nospace"}

\* str(e) of the exception raised at each place.
Msg(fault) ==
    CASE fault = "cuda_check" -> <<"c", "u", "d", "a">>
      [] fault = "progress"   -> <<"c", "b">>
      [] fault = "load_model" -> <<"l", "o", "a", "d">>
      [] fault = "transcribe" -> <<"d", "e", "c", "o", "d", "e">>
      [] fault = "segments"   -> <<"g", "e", "n">>
      [] fault = "format"     -> <<"f", "m", "t">>
      [] fault = "zerodiv"    -> <<"d", "i", "v">>
      [] fault = "open"       -> <<"o", "p", "e", "n">>
      [] fault = "encode"     -> <<"e", "n", "c">>
      [] fault = "nospace"    -> <<"f", "u", "l", "l">>
      [] fault = "type"       -> <<"t", "y", "p", "e">>

\* The output file is absent.
NoFile == <<"<absent>">>
OldContent == <<"o", "l", "d">>

\* A call that has not returned yet.
Pending == <<"<pending>">>

\* ------------------------------------------------------------------- state

VARIABLES
    args,            \* [Runs -> the parsed command line]
    cuda_available,  \* torch.cuda.is_available()
    faults,          \* the places that may raise in this world
    pc,              \* [Runs -> where main is]
    transcription,   \* [Runs -> main's local variable]
    printed,         \* [Runs -> what main printed]
    ta,              \* [Runs -> the frame of the transcribe_audio call]
    reports,         \* [Runs -> the progress reports of the current call]
    calls,           \* [Runs -> the calls made to transcribe_audio and save_transcription]
    files,           \* [Runs -> the content of out.txt]
    form,            \* [Runs -> the values of the form's components]
    clicks           \* [Runs -> button clicks so far]

vars ==
    <<args, cuda_available, faults, pc, transcription, printed, ta, reports,
      calls, files, form, clicks>>

NoModel == [model_size |-> "-", device |-> "-", compute_type |-> "-"]

IdleFrame ==
    [pc |-> "idle", audio_path |-> "-", model_size |-> "-", device |-> "-",
     compute_type |-> "-", model |-> NoModel, segments_list |-> <<>>,
     total_segments |-> 0, idx |-> 0, transcription |-> <<>>,
     exc |-> <<>>, result |-> <<>>, entry |-> 0]

NoForm ==
    [audio_input |-> "-", model_size |-> "-", device |-> "-",
     compute_type |-> "-", output_path |-> "-", output_text |-> <<>>,
     status_text |-> <<>>, filled |-> FALSE]

\* ------------------------------------------------------ save_transcription

\* f"Transcription saved to: {output_path}"; the path is kept as one element.
SavedPrefix ==
    <<"T", "r", "a", "n", "s", "c", "r", "i", "p", "t", "i", "o", "n", " ",
      "s", "a", "v", "e", "d", " ", "t", "o", ":", " ">>

SavedMessage(output_path) == SavedPrefix \o <<output_path>>

\* f"Error saving transcription: {str(e)}"
SaveErrPrefix ==
    <<"E", "r", "r", "o", "r", " ", "s", "a", "v", "i", "n", "g", " ",
      "t", "r", "a", "n", "s", "c", "r", "i", "p", "t", "i", "o", "n", ":", " ">>

SaveError(msg) == SaveErrPrefix \o msg

\* open(output_path, 'w') can succeed only on a path that names a file.
Openable(output_path) == output_path = "out.txt"

\* save_transcription with the file opened in mode 'a': what is written is
\* added to what the file held.
save_transcription_Append(text, output_path, file, flt) ==
    LET held == IF file = NoFile THEN <<>> ELSE file
    IN  IF ~Openable(output_path)
        THEN {[file |-> file, ret |-> SaveError(Msg("open"))]}
        ELSE
            (IF "open" \in flt
             THEN {[file |-> file, ret |-> SaveError(Msg("open"))]} ELSE {})
            \cup
            (IF text = NoneText
             THEN {[file |-> held, ret |-> SaveError(Msg("type"))]}
             ELSE
                {[file |-> held \o text, ret |-> SavedMessage(output_path)]}
                \cup
                (IF "encode" \in flt
                 THEN {[file |-> held, ret |-> SaveError(Msg("encode"))]}
                 ELSE {}))

\* The outcomes of save_transcription(text, output_path) on a file system
\* where out.txt holds `file`: the file afterwards and the value returned.
\* open(..., 'w') empties the file before anything is written; a write that
\* raises leaves it empty (the text cannot be encoded, or is None) or short
\* (the device is full: all but the end of the text is kept).
save_transcription(text, output_path, file, flt) ==
    IF ~Openable(output_path)
    THEN {[file |-> file, ret |-> SaveError(Msg("open"))]}
    ELSE
        (IF "open" \in flt
         THEN {[file |-> file, ret |-> SaveError(Msg("open"))]} ELSE {})
        \cup
        (IF text = NoneText
         THEN {[file |-> <<>>, ret |-> SaveError(Msg("type"))]}
         ELSE
            {[file |-> text, ret |-> SavedMessage(output_path)]}
            \cup
            (IF "encode" \in flt
             THEN {[file |-> <<>>, ret |-> SaveError(Msg("encode"))]} ELSE {})
            \cup
            (IF "nospace" \in flt /\ text # <<>>
             THEN {[file |-> SubSeq(text, 1, Len(text) - 1),
                    ret |-> SaveError(Msg("nospace"))]}
             ELSE {}))

\* ---------------------------------------------------------------- call log

TranscribeEntry(audio_path, model_size, device, compute_type, by) ==
    [fn |-> "transcribe_audio", by |-> by, audio_path |-> audio_path,
     model_size |-> model_size, device |-> device,
     compute_type |-> compute_type, text |-> <<>>, output_path |-> "-",
     ret |-> Pending]

SaveEntry(text, output_path, by, ret) ==
    [fn |-> "save_transcription", by |-> by, audio_path |-> "-",
     model_size |-> "-", device |-> "-", compute_type |-> "-",
     text |-> text, output_path |-> output_path, ret |-> ret]

\* -------------------------------------------------------- transcribe_audio

\* The frame of a call that has just been entered.
EnterFrame(audio_path, model_size, device, compute_type, entry) ==
    [IdleFrame EXCEPT !.pc = "check_cuda", !.audio_path = audio_path,
                      !.model_size = model_size, !.device = device,
                      !.compute_type = compute_type, !.entry = entry]

\* transcribe_audio(audio_path, model_size, device, compute_type) is called.
CallTranscribe(r, audio_path, model_size, device, compute_type, by) ==
    /\ ta' = [ta EXCEPT ![r] =
                EnterFrame(audio_path, model_size, device, compute_type,
                           Len(calls[r]) + 1)]
    /\ calls' = [calls EXCEPT ![r] =
                Append(@, TranscribeEntry(audio_path, model_size, device,
                                          compute_type, by))]
    /\ reports' = [reports EXCEPT ![r] = <<>>]

\* An exception raised inside the try block: control goes to the handler.
Raise(f, fault) == [f EXCEPT !.pc = "except", !.exc = Msg(fault)]

\* progress(value, desc=...) returned: the report was made.  Values are
\* fractions num/den.
Reported(r, num, den, desc) ==
    reports' = [reports EXCEPT ![r] =
                  Append(@, [num |-> num, den |-> den, desc |-> desc])]

\* device == "cuda" and not torch.cuda.is_available()
NeedsFallback(device, available) == device = "cuda" /\ ~available

\* A fallback that keeps float16 on the CPU.
FallbackSettings_KeepType == [device |-> "cpu", compute_type |-> "float16"]

\* The device and compute type after the fallback.
FallbackSettings == [device |-> "cpu", compute_type |-> "int8"]

\* (idx / total_segments) * 0.8, without the 0.2 the loop starts from.
SegmentProgress_NoOffset(idx, total_segments) ==
    [num |-> 8 * idx, den |-> 10 * total_segments]

\* (idx / total_segments) * 0.8 + 0.2, as the fraction (8 idx + 2 n) / (10 n).
SegmentProgress(idx, total_segments) ==
    [num |-> 8 * idx + 2 * total_segments, den |-> 10 * total_segments]

TACheckCuda(r) ==
    /\ ta[r].pc = "check_cuda"
    /\ UNCHANGED <<args, cuda_available, faults, pc, transcription, printed,
                   reports, calls, files, form, clicks>>
    /\ \/ /\ ta[r].device = "cuda"
          /\ "cuda_check" \in faults
          /\ ta' = [ta EXCEPT ![r] = Raise(@, "cuda_check")]
       \/ ta' = [ta EXCEPT ![r].pc =
                    IF NeedsFallback(ta[r].device, cuda_available)
                    THEN "fallback" ELSE "loading"]

TAFallback(r) ==
    /\ ta[r].pc = "fallback"
    /\ UNCHANGED <<args, cuda_available, faults, pc, transcription, printed,
                   calls, files, form, clicks>>
    /\ \/ /\ Reported(r, 0, 1, "CUDA not available. Falling back to CPU...")
          /\ ta' = [ta EXCEPT ![r].pc = "loading",
                              ![r].device = FallbackSettings.device,
                              ![r].compute_type = FallbackSettings.compute_type]
       \/ /\ "progress" \in faults
          /\ ta' = [ta EXCEPT ![r] = Raise(@, "progress")]
          /\ UNCHANGED reports

TALoading(r) ==
    /\ ta[r].pc = "loading"
    /\ UNCHANGED <<args, cuda_available, faults, pc, transcription, printed,
                   calls, files, form, clicks>>
    /\ \/ /\ Reported(r, 1, 10, "Loading model...")
          /\ ta' = [ta EXCEPT ![r].pc = "load_model"]
       \/ /\ "progress" \in faults
          /\ ta' = [ta EXCEPT ![r] = Raise(@, "progress")]
          /\ UNCHANGED reports

\* WhisperModel(model_size, device=device, compute_type=compute_type)
WhisperModel(f) ==
    [model_size |-> f.model_size, device |-> f.device,
     compute_type |-> f.compute_type]

TALoadModel(r) ==
    /\ ta[r].pc = "load_model"
    /\ UNCHANGED <<args, cuda_available, faults, pc, transcription, printed,
                   reports, calls, files, form, clicks>>
    /\ \/ ta' = [ta EXCEPT ![r].pc = "starting",
                           ![r].model = WhisperModel(ta[r])]
       \/ /\ "load_model" \in faults
          /\ ta' = [ta EXCEPT ![r] = Raise(@, "load_model")]

TAStarting(r) ==
    /\ ta[r].pc = "starting"
    /\ UNCHANGED <<args, cuda_available, faults, pc, transcription, printed,
                   calls, files, form, clicks>>
    /\ \/ /\ Reported(r, 2, 10, "Starting transcription...")
          /\ ta' = [ta EXCEPT ![r].pc = "transcribe"]
       \/ /\ "progress" \in faults
          /\ ta' = [ta EXCEPT ![r] = Raise(@, "progress")]
          /\ UNCHANGED reports

\* model.transcribe(audio_path, ...) decodes the file and returns a generator.
TATranscribe(r) ==
    /\ ta[r].pc = "transcribe"
    /\ UNCHANGED <<args, cuda_available, faults, pc, transcription, printed,
                   reports, calls, files, form, clicks>>
    /\ \/ /\ PossibleSegments(ta[r].audio_path) # {}
          /\ ta' = [ta EXCEPT ![r].pc = "segments"]
       \/ /\ PossibleSegments(ta[r].audio_path) = {} \/ "transcribe" \in faults
          /\ ta' = [ta EXCEPT ![r] = Raise(@, "transcribe")]

\* segments_list = list(segments); total_segments = len(segments_list)
TASegments(r) ==
    /\ ta[r].pc = "segments"
    /\ UNCHANGED <<args, cuda_available, faults, pc, transcription, printed,
                   reports, calls, files, form, clicks>>
    /\ \/ \E s \in PossibleSegments(ta[r].audio_path) :
            ta' = [ta EXCEPT ![r].pc = "loop",
                             ![r].segments_list = s,
                             ![r].total_segments = Len(s),
                             ![r].idx = 0,
                             ![r].transcription = <<>>]
       \/ /\ "segments" \in faults
          /\ ta' = [ta EXCEPT ![r] = Raise(@, "segments")]

\* The head of the for loop and the first four lines of its body.
TALoop(r) ==
    /\ ta[r].pc = "loop"
    /\ UNCHANGED <<args, cuda_available, faults, pc, transcription, printed,
                   reports, calls, files, form, clicks>>
    /\ \/ /\ ta[r].idx < Len(ta[r].segments_list)
          /\ ta' = [ta EXCEPT
                      ![r].pc = "seg_progress",
                      ![r].idx = @ + 1,
                      ![r].transcription =
                          Append(@, FormatSegment(ta[r].segments_list[ta[r].idx + 1]))]
       \/ /\ ta[r].idx < Len(ta[r].segments_list)
          /\ "format" \in faults
          /\ ta' = [ta EXCEPT ![r] = Raise([@ EXCEPT !.idx = @ + 1], "format")]
       \/ /\ ta[r].idx = Len(ta[r].segments_list)
          /\ ta' = [ta EXCEPT ![r].pc = "completed"]

\* progress((idx / total_segments) * 0.8 + 0.2, desc=...): the division
\* raises when total_segments is 0, before the callback is called.
TASegProgress(r) ==
    /\ ta[r].pc = "seg_progress"
    /\ UNCHANGED <<args, cuda_available, faults, pc, transcription, printed,
                   calls, files, form, clicks>>
    /\ \/ IF ta[r].total_segments = 0
          THEN /\ ta' = [ta EXCEPT ![r] = Raise(@, "zerodiv")]
               /\ UNCHANGED reports
          ELSE /\ Reported(r, SegmentProgress(ta[r].idx, ta[r].total_segments).num,
                           SegmentProgress(ta[r].idx, ta[r].total_segments).den,
                           "Processing segment")
               /\ ta' = [ta EXCEPT ![r].pc = "loop"]
       \/ /\ ta[r].total_segments # 0
          /\ "progress" \in faults
          /\ ta' = [ta EXCEPT ![r] = Raise(@, "progress")]
          /\ UNCHANGED reports

\* The value returned on the normal path.
ReturnValue(f) == Join(f.transcription)

\* A handler that returns what had been transcribed before the exception.
ExceptValue_Partial(f) == Join(f.transcription)

\* The value returned by the handler.
ExceptValue(f) == ErrorString(f.exc)

\* The call returns `value`: the log keeps it.
Returns(r, value) ==
    /\ ta' = [ta EXCEPT ![r].pc = "returned", ![r].result = value]
    /\ calls' = [calls EXCEPT ![r][ta[r].entry].ret = value]

\* progress(1.0, ...) and return "\n".join(transcription)
TACompleted(r) ==
    /\ ta[r].pc = "completed"
    /\ UNCHANGED <<args, cuda_available, faults, pc, transcription, printed,
                   files, form, clicks>>
    /\ \/ /\ Reported(r, 1, 1, "Transcription completed!")
          /\ Returns(r, ReturnValue(ta[r]))
       \/ /\ "progress" \in faults
          /\ ta' = [ta EXCEPT ![r] = Raise(@, "progress")]
          /\ UNCHANGED <<reports, calls>>

\* except Exception as e: return f"An error occurred: {str(e)}"
TAExcept(r) ==
    /\ ta[r].pc = "except"
    /\ UNCHANGED <<args, cuda_available, faults, pc, transcription, printed,
                   reports, files, form, clicks>>
    /\ Returns(r, ExceptValue(ta[r]))

\* -------------------------------------------------------------------- main

\* main without the os.path.exists test.
AudioPathCheck_NoExists(audio_path) ==
    IF ~TruthyPath(audio_path) THEN "missing" ELSE "ok"

\* What main makes of args.audio_path in command-line mode.
AudioPathCheck(audio_path) ==
    IF ~TruthyPath(audio_path) THEN "missing"
    ELSE IF ~Exists(audio_path) THEN "not found"
    ELSE "ok"

\* if args.output, without the test of the transcription.
ShouldSave_AnyText(text, output) == TruthyPath(output)

\* if transcription and args.output
ShouldSave(text, output) == Truthy(text) /\ TruthyPath(output)

\* The form as create_gui builds it.  The toolkit decides whether the empty
\* output area holds "" or None.
InitialForms ==
    {[audio_input |-> NoneStr, model_size |-> "large-v3",
      device |-> IF cuda_available THEN "cuda" ELSE "cpu",
      compute_type |-> "float16", output_path |-> "", output_text |-> t,
      status_text |-> <<>>, filled |-> FALSE] : t \in {<<>>, NoneText}}

\* main with --gui: create_gui() and interface.launch(...).  The --gui
\* invocation is started once the command-line one has ended.
MainGui(r) ==
    /\ pc[r] = "start"
    /\ args[r].gui
    /\ pc["cli"] = "done"
    /\ \E f \in InitialForms : form' = [form EXCEPT ![r] = f]
    /\ pc' = [pc EXCEPT ![r] = "serving"]
    /\ UNCHANGED <<args, cuda_available, faults, transcription, printed, ta,
                   reports, calls, files, clicks>>

\* main without --gui, up to the call of transcribe_audio.
MainCli(r) ==
    /\ pc[r] = "start"
    /\ ~args[r].gui
    /\ UNCHANGED <<args, cuda_available, faults, transcription, files, form,
                   clicks>>
    /\ IF AudioPathCheck(args[r].audio_path) = "missing"
       THEN /\ printed' = [printed EXCEPT ![r] =
                    Append(@, <<"Error: Please provide an audio path", "">>)]
            /\ pc' = [pc EXCEPT ![r] = "done"]
            /\ UNCHANGED <<ta, reports, calls>>
       ELSE IF AudioPathCheck(args[r].audio_path) = "not found"
       THEN /\ printed' = [printed EXCEPT ![r] =
                    Append(@, <<"Error: Audio file not found at ",
                                args[r].audio_path>>)]
            /\ pc' = [pc EXCEPT ![r] = "done"]
            /\ UNCHANGED <<ta, reports, calls>>
       ELSE /\ CallTranscribe(r, args[r].audio_path, args[r].model,
                              args[r].device, args[r].compute_type, "main")
            /\ pc' = [pc EXCEPT ![r] = "transcribing"]
            /\ UNCHANGED printed

\* main after transcribe_audio has returned: save when there is a
\* transcription and an output path.
MainSave(r) ==
    /\ pc[r] = "transcribing"
    /\ ta[r].pc = "returned"
    /\ transcription' = [transcription EXCEPT ![r] = ta[r].result]
    /\ ta' = [ta EXCEPT ![r] = IdleFrame]
    /\ pc' = [pc EXCEPT ![r] = "done"]
    /\ IF ShouldSave(ta[r].result, args[r].output)
       THEN \E o \in save_transcription(ta[r].result, args[r].output,
                                        files[r], faults) :
                /\ files' = [files EXCEPT ![r] = o.file]
                /\ calls' = [calls EXCEPT ![r] =
                        Append(@, SaveEntry(ta[r].result, args[r].output,
                                            "main", o.ret))]
       ELSE UNCHANGED <<files, calls>>
    /\ UNCHANGED <<args, cuda_available, faults, printed, reports, form,
                   clicks>>

\* ---------------------------------------------------------------- the form

\* The user fills the form in: the audio file, the three dropdowns and the
\* save path (an empty text box when there is none).  The user of the form
\* enters what the command line of the other invocation gave.
UserFill(r) ==
    /\ pc[r] = "serving"
    /\ ~form[r].filled
    /\ form' = [form EXCEPT
                  ![r].audio_input = args[r].audio_path,
                  ![r].model_size = args[r].model,
                  ![r].device = args[r].device,
                  ![r].compute_type = args[r].compute_type,
                  ![r].output_path =
                      IF args[r].output = NoneStr THEN "" ELSE args[r].output,
                  ![r].filled = TRUE]
    /\ UNCHANGED <<args, cuda_available, faults, pc, transcription, printed,
                   ta, reports, calls, files, clicks>>

\* A Save button wired to the status box instead of the output area.
SaveInputs_Status(f) == [text |-> f.status_text, output_path |-> f.output_path]

\* The inputs of save_btn.click: [output_text, output_path].
SaveInputs(f) == [text |-> f.output_text, output_path |-> f.output_path]

\* transcribe_btn.click: the toolkit runs one transcribe_audio at a time.
TranscribeClick(r) ==
    /\ pc[r] = "serving"
    /\ ta[r].pc = "idle"
    /\ clicks[r] < MaxClicks
    /\ clicks' = [clicks EXCEPT ![r] = @ + 1]
    /\ CallTranscribe(r, form[r].audio_input, form[r].model_size,
                      form[r].device, form[r].compute_type, "click")
    /\ UNCHANGED <<args, cuda_available, faults, pc, transcription, printed,
                   files, form>>

\* outputs=output_text: the value returned is shown in the output area.
TranscribeDone(r) ==
    /\ pc[r] = "serving"
    /\ ta[r].pc = "returned"
    /\ form' = [form EXCEPT ![r].output_text = ta[r].result]
    /\ ta' = [ta EXCEPT ![r] = IdleFrame]
    /\ UNCHANGED <<args, cuda_available, faults, pc, transcription, printed,
                   reports, calls, files, clicks>>

\* save_btn.click: save_transcription(output_text, output_path), its value
\* shown in the status box.  It may be clicked at any time.
SaveClick(r) ==
    /\ pc[r] = "serving"
    /\ clicks[r] < MaxClicks
    /\ clicks' = [clicks EXCEPT ![r] = @ + 1]
    /\ \E o \in save_transcription(SaveInputs(form[r]).text,
                                   SaveInputs(form[r]).output_path,
                                   files[r], faults) :
        /\ files' = [files EXCEPT ![r] = o.file]
        /\ calls' = [calls EXCEPT ![r] =
                Append(@, SaveEntry(SaveInputs(form[r]).text,
                                    SaveInputs(form[r]).output_path,
                                    "click", o.ret))]
        /\ form' = [form EXCEPT ![r].status_text = o.ret]
    /\ UNCHANGED <<args, cuda_available, faults, pc, transcription, printed,
                   ta, reports>>

\* ----------------------------------------------------------- specifications

\* The command line without the --gui flag.
ArgSets(audio_paths) ==
    [audio_path : audio_paths, model : {"large-v3"}, device : Devices,
     compute_type : ComputeTypes, output : OutputPaths]

WithGui(a, gui) ==
    [gui |-> gui, audio_path |-> a.audio_path, model |-> a.model,
     device |-> a.device, compute_type |-> a.compute_type,
     output |-> a.output]

InitWorld(a, file) ==
    /\ args = [r \in Runs |-> WithGui(a, r = "gui")]
    /\ pc = [r \in Runs |-> "start"]
    /\ transcription = [r \in Runs |-> <<>>]
    /\ printed = [r \in Runs |-> <<>>]
    /\ ta = [r \in Runs |-> IdleFrame]
    /\ reports = [r \in Runs |-> <<>>]
    /\ calls = [r \in Runs |-> <<>>]
    /\ files = [r \in Runs |-> file]
    /\ form = [r \in Runs |-> NoForm]
    /\ clicks = [r \in Runs |-> 0]

\* Any command line, any machine, every place may raise.
Init ==
    /\ cuda_available \in BOOLEAN
    /\ faults = AllFaults
    /\ \E a \in ArgSets(AudioPaths), file \in {NoFile, OldContent} :
            InitWorld(a, file)

TranscribeSteps(r) ==
    \/ TACheckCuda(r)
    \/ TAFallback(r)
    \/ TALoading(r)
    \/ TALoadModel(r)
    \/ TAStarting(r)
    \/ TATranscribe(r)
    \/ TASegments(r)
    \/ TALoop(r)
    \/ TASegProgress(r)
    \/ TACompleted(r)
    \/ TAExcept(r)

Next ==
    \E r \in Runs :
        \/ MainGui(r)
        \/ MainCli(r)
        \/ MainSave(r)
        \/ TranscribeSteps(r)

Spec == Init /\ [][Next]_vars

\* The form in use, on short recordings: worlds in which nothing raises, for
\* every audio path and output path, and worlds in which one place may raise.
InitGui ==
    \/ /\ faults = {}
       /\ cuda_available \in BOOLEAN
       /\ \E a \in ArgSets(AudioPaths \ {"long.wav"}) :
            /\ a.device = "cuda"
            /\ a.compute_type = "float16"
            /\ \E file \in {NoFile, OldContent} : InitWorld(a, file)
    \/ /\ faults \in {{x} : x \in AllFaults}
       /\ cuda_available = TRUE
       /\ \E file \in {NoFile, OldContent} : InitWorld([audio_path |-> "a.wav", model |-> "large-v3",
                     device |-> "cuda", compute_type |-> "float16",
                     output |-> "out.txt"], file)

NextGui ==
    \/ Next
    \/ \E r \in Runs :
        \/ UserFill(r)
        \/ TranscribeClick(r)
        \/ TranscribeDone(r)
        \/ SaveClick(r)

SpecGui == InitGui /\ [][NextGui]_vars

\* ------------------------------------------------------------------ claims

IsPrefixOf(p, s) == Len(p) <= Len(s) /\ SubSeq(s, 1, Len(p)) = p

\* A text of the form "An error occurred: <message>".
IsErrorString(text) == IsPrefixOf(ErrPrefix, text)

\* The call of run r has returned on the normal path / through the handler.
Succeeded(r) == ta[r].pc = "returned" /\ ta[r].exc = <<>>
Failed(r) == ta[r].pc = "returned" /\ ta[r].exc # <<>>

\* The lines of a text: its pieces between line breaks; the empty text has none.
RECURSIVE SplitLines(_)
SplitLines(s) ==
    IF \A i \in 1..Len(s) : s[i] # NL THEN <<s>>
    ELSE LET i == CHOOSE k \in 1..Len(s) :
                    s[k] = NL /\ \A j \in 1..(k - 1) : s[j] # NL
         IN  <<SubSeq(s, 1, i - 1)>> \o SplitLines(SubSeq(s, i + 1, Len(s)))

Lines(s) == IF s = <<>> THEN <<>> ELSE SplitLines(s)

\* The line the claim gives for a segment.
ExpectedLine(segment) ==
    <<"(">> \o format_timestamp(segment.start) \o <<")", " ">>
        \o Strip(segment.text)

ExpectedLines(segments) ==
    [i \in 1..Len(segments) |-> ExpectedLine(segments[i])]

HasLineBreak(s) == \E i \in 1..Len(s) : s[i] = NL

\* C1 as stated: on a successful run the result has exactly one line per
\* segment, line i being "(" + format_timestamp(start) + ") " + stripped text.
C1_OneLinePerSegment ==
    \A r \in Runs :
        Succeeded(r) =>
            Lines(ta[r].result) = ExpectedLines(ta[r].segments_list)

\* C1 amended: on a successful run the result is the formatted segments, in
\* the model's order, joined by line breaks; it has one line per segment, line
\* i being the formatted segment i, when no stripped text holds a line break.
C1_JoinedInOrder ==
    \A r \in Runs :
        Succeeded(r) =>
            /\ ta[r].result = Join(ExpectedLines(ta[r].segments_list))
            /\ (\A i \in 1..Len(ta[r].segments_list) :
                    ~HasLineBreak(Strip(ta[r].segments_list[i].text)))
                => Lines(ta[r].result) = ExpectedLines(ta[r].segments_list)

\* Two segments with different starts and texts were returned in one call.
C1_Witness ==
    \E r \in Runs :
        /\ Succeeded(r)
        /\ Len(ta[r].segments_list) = 2
        /\ ta[r].segments_list[1].start > ta[r].segments_list[2].start
        /\ ta[r].segments_list[1].text = <<NL>>
        /\ ta[r].segments_list[2].text = <<" ", "a">>
        /\ Len(Lines(ta[r].result)) = 2

\* C2: whichever step raises, the call goes to the handler, the handler can
\* run, and the call returns "An error occurred: <message>" and nothing of
\* the transcription built so far.
C2_ErrorStringReturned ==
    \A r \in Runs :
        /\ ta[r].exc # <<>> => ta[r].pc \in {"except", "returned"}
        /\ ta[r].pc = "except" => ENABLED TAExcept(r)
        /\ Failed(r) =>
            /\ ta[r].result = ErrPrefix \o ta[r].exc
            /\ calls[r][ta[r].entry].ret = ta[r].result

\* A call failed after it had formatted a segment.
C2_Witness ==
    \E r \in Runs :
        /\ Failed(r)
        /\ ta[r].exc = Msg("format")
        /\ Len(ta[r].transcription) = 1
        /\ IsErrorString(ta[r].result)

\* C3 as stated: the model is constructed with the device and the compute
\* type the call received.
C3_PassedThrough ==
    \A r \in Runs :
        ta[r].model # NoModel =>
            /\ ta[r].model.device = calls[r][ta[r].entry].device
            /\ ta[r].model.compute_type = calls[r][ta[r].entry].compute_type

\* C3 amended: the model is constructed with the device and the compute type
\* the call received, except when the device received is "cuda" and CUDA is
\* not available: then it is constructed with "cpu" and "int8".  The model
\* size is always the one received.
C3_PassedThroughOrFallback ==
    \A r \in Runs :
        ta[r].model # NoModel =>
            LET received == calls[r][ta[r].entry]
            IN  /\ ta[r].model.model_size = received.model_size
                /\ IF received.device = "cuda" /\ ~cuda_available
                   THEN /\ ta[r].model.device = "cpu"
                        /\ ta[r].model.compute_type = "int8"
                   ELSE /\ ta[r].model.device = received.device
                        /\ ta[r].model.compute_type = received.compute_type

\* A model constructed after the fallback, and the call asked for float16.
C3_Witness ==
    \E r \in Runs :
        /\ ta[r].model # NoModel
        /\ calls[r][ta[r].entry].device = "cuda"
        /\ calls[r][ta[r].entry].compute_type = "float16"
        /\ ta[r].model.device = "cpu"

\* The transcribe_audio calls of run r that have returned, as places in the log.
Completed(r) ==
    {i \in 1..Len(calls[r]) :
        calls[r][i].fn = "transcribe_audio" /\ calls[r][i].ret # Pending}

\* The value of the most recent transcribe_audio call that has returned.
LastResult(r) ==
    calls[r][CHOOSE i \in Completed(r) : \A j \in Completed(r) : j <= i].ret

\* This step of run r calls save_transcription.
SaveCalled(r) ==
    /\ Len(calls'[r]) = Len(calls[r]) + 1
    /\ calls'[r][Len(calls'[r])].fn = "save_transcription"

\* C4 as stated: save_transcription is invoked only after a transcribe_audio
\* call has completed, with the result of the most recent completed call.
C4_SaveAfterTranscribe ==
    [][\A r \in Runs :
        SaveCalled(r) =>
            /\ Completed(r) # {}
            /\ calls'[r][Len(calls'[r])].text = LastResult(r)]_vars

\* The calls whose result the form has put in the output area: a call that
\* has returned is shown when its click handler ends.
Shown(r) ==
    {i \in Completed(r) : ~(ta[r].pc = "returned" /\ ta[r].entry = i)}

LastShown(r) ==
    calls[r][CHOOSE i \in Shown(r) : \A j \in Shown(r) : j <= i].ret

\* C4 amended: main invokes save_transcription only after transcribe_audio
\* has returned, with its result.  In the form, Save may be clicked at any
\* time: save_transcription is invoked with the content of the output area,
\* which is the result of the most recent transcribe_audio call whose result
\* the form has shown, or the empty initial content when none has been shown.
C4_SaveLatestOrInitial ==
    [][\A r \in Runs :
        SaveCalled(r) =>
            LET e == calls'[r][Len(calls'[r])]
            IN  IF e.by = "main"
                THEN Completed(r) # {} /\ e.text = LastResult(r)
                ELSE IF Shown(r) # {}
                THEN e.text = LastShown(r)
                ELSE e.text \in {<<>>, NoneText}]_vars

\* Two transcriptions with different results, then a save of the second.
C4_Witness ==
    \E r \in Runs :
        /\ Len(calls[r]) = 3
        /\ calls[r][1].fn = "transcribe_audio"
        /\ calls[r][2].fn = "transcribe_audio"
        /\ calls[r][3].fn = "save_transcription"
        /\ calls[r][1].ret # calls[r][2].ret
        /\ calls[r][2].ret # Pending
        /\ calls[r][3].text = calls[r][2].ret
        /\ files[r] = calls[r][2].ret

\* A call as the claim compares calls: the function and its arguments.
Signature(e) == [e EXCEPT !.by = "-", !.ret = <<>>]
Signatures(log) == [i \in 1..Len(log) |-> Signature(log[i])]

\* The session of the form the claim compares with the command line: the form
\* filled in with the command line's values, one Transcribe click, and one
\* Save click once the result is shown.
FormSession ==
    /\ pc["cli"] = "done"
    /\ pc["gui"] = "serving"
    /\ form["gui"].filled
    /\ Len(calls["gui"]) = 2
    /\ calls["gui"][1].fn = "transcribe_audio"
    /\ calls["gui"][1].audio_path = args["gui"].audio_path
    /\ calls["gui"][1].device = args["gui"].device
    /\ calls["gui"][1].compute_type = args["gui"].compute_type
    /\ calls["gui"][1].ret # Pending
    /\ ta["gui"].pc = "idle"
    /\ calls["gui"][2].fn = "save_transcription"
    /\ calls["gui"][2].text = calls["gui"][1].ret
    /\ calls["gui"][2].output_path = form["gui"].output_path

\* The model and the file system behaved alike in the two invocations: the
\* calls made by both returned the same values.
SameBehaviour ==
    \A i \in 1..Len(calls["cli"]) :
        i <= Len(calls["gui"]) => calls["cli"][i].ret = calls["gui"][i].ret

SameCallsAndFile ==
    /\ Signatures(calls["cli"]) = Signatures(calls["gui"])
    /\ files["cli"] = files["gui"]

\* C5 as stated: the form (Transcribe, then Save) and the command line make
\* the same calls with the same arguments and leave the same output file.
C5_Equivalent ==
    (FormSession /\ SameBehaviour) => SameCallsAndFile

\* C5 amended: the calls of the command line are the first calls of the form,
\* and the two make the same calls and leave the same output file exactly
\* when the audio path names an existing file, the output path is not empty
\* and transcribe_audio returned a non-empty text.
C5_EquivalentWhenSaved ==
    (FormSession /\ SameBehaviour) =>
        /\ IsPrefixOf(Signatures(calls["cli"]), Signatures(calls["gui"]))
        /\ SameCallsAndFile <=>
            /\ args["cli"].audio_path \in {"a.wav", "long.wav"}
            /\ args["cli"].output \notin {NoneStr, ""}
            /\ calls["gui"][1].ret \notin {<<>>, NoneText}

\* Both invocations transcribed and saved the same text to out.txt.
C5_Witness ==
    /\ FormSession
    /\ SameBehaviour
    /\ SameCallsAndFile
    /\ Len(calls["cli"]) = 2
    /\ calls["cli"][2].ret = SavedMessage("out.txt")
    /\ ~IsErrorString(files["cli"])

\* The timestamp the claim gives: hours, minutes and seconds of floor(s), each
\* on two digits.
ClaimedTimestamp(seconds) ==
    LET total == seconds \div 10
    IN  Pad2(total \div 3600) \o <<":">> \o Pad2((total % 3600) \div 60)
            \o <<":">> \o Pad2(total % 60)

\* C6: every formatted segment carries its start as HH:MM:SS.
C6_HHMMSS ==
    \A r \in Runs :
        \A i \in 1..Len(ta[r].transcription) :
            IsPrefixOf(<<"(">> \o ClaimedTimestamp(ta[r].segments_list[i].start)
                            \o <<")">>,
                       ta[r].transcription[i])

\* The places of the save_transcription calls in the log of run r.
Saves(r) == {i \in 1..Len(calls[r]) : calls[r][i].fn = "save_transcription"}

\* C7: every call of save_transcription returns either the success message
\* for its path or an error message; after the most recent call, when it
\* returned the success message, out.txt holds exactly the text it was given.
C7_SavedOrError ==
    \A r \in Runs :
        \A i \in Saves(r) :
            /\ \/ calls[r][i].ret = SavedPrefix \o <<calls[r][i].output_path>>
               \/ IsPrefixOf(SaveErrPrefix, calls[r][i].ret)
            /\ (/\ \A j \in Saves(r) : j <= i
                /\ calls[r][i].ret = SavedPrefix \o <<calls[r][i].output_path>>)
               => files[r] = calls[r][i].text

\* A second successful save replaced what the first had written.
C7_Witness ==
    \E r \in Runs :
        \E i, j \in Saves(r) :
            /\ i < j
            /\ calls[r][i].ret = SavedMessage("out.txt")
            /\ calls[r][j].ret = SavedMessage("out.txt")
            /\ calls[r][j].text # <<>>
            /\ calls[r][i].text # calls[r][j].text
            /\ files[r] = calls[r][j].text

\* Fractions of integers.
FracLeq(a, b) == a.num * b.den <= b.num * a.den
FracEq(a, b) == a.num * b.den = b.num * a.den

\* The k-th value the claim lists for a call: 0 when the call falls back to
\* the CPU, 0.1, 0.2, (idx / n) * 0.8 + 0.2 for idx = 1..n, and 1.0.
ClaimedProgress(fallback, n, k) ==
    LET j == IF fallback THEN k - 1 ELSE k
    IN  IF j = 0 THEN [num |-> 0, den |-> 1]
        ELSE IF j = 1 THEN [num |-> 1, den |-> 10]
        ELSE IF j = 2 THEN [num |-> 1, den |-> 5]
        ELSE IF j <= n + 2 THEN [num |-> 4 * (j - 2) + n, den |-> 5 * n]
        ELSE [num |-> 1, den |-> 1]

\* The call of run r received "cuda" on a machine without CUDA.
FellBack(r) ==
    /\ ta[r].entry # 0
    /\ calls[r][ta[r].entry].device = "cuda"
    /\ ~cuda_available

CompletedReport == [num |-> 1, den |-> 1, desc |-> "Transcription completed!"]

\* C8: the reports of a call are the first values of the claimed sequence,
\* each in [0, 1] and none below the one before; 1.0 with 'Transcription
\* completed!' is reported exactly when the call returns a transcription;
\* the division never raises.
C8_ProgressSequence ==
    \A r \in {x \in Runs : ta[x].pc # "idle"} :
        LET rep == reports[r]
            n == ta[r].total_segments
            last == (IF FellBack(r) THEN 1 ELSE 0) + 2 + n + 1
        IN  /\ Len(rep) <= last
            /\ \A k \in 1..Len(rep) :
                /\ rep[k].den > 0
                /\ FracEq(rep[k], ClaimedProgress(FellBack(r), n, k))
                /\ FracLeq([num |-> 0, den |-> 1], rep[k])
                /\ FracLeq(rep[k], [num |-> 1, den |-> 1])
                /\ k > 1 => FracLeq(rep[k - 1], rep[k])
            /\ ta[r].exc # Msg("zerodiv")
            /\ ta[r].pc = "returned" =>
                ((\E k \in 1..Len(rep) : rep[k] = CompletedReport)
                    <=> ~IsErrorString(ta[r].result))
            /\ Succeeded(r) =>
                /\ Len(rep) = last
                /\ rep[Len(rep)] = CompletedReport

\* A call that fell back and processed two segments returned its transcription.
C8_Witness ==
    \E r \in Runs :
        /\ Succeeded(r)
        /\ FellBack(r)
        /\ ta[r].total_segments = 2
        /\ Len(reports[r]) = 6
        /\ reports[r][4].num * 10 = 6 * reports[r][4].den

\* No segments: the call returned the empty transcription without dividing.
C8_WitnessEmpty ==
    \E r \in Runs :
        /\ Succeeded(r)
        /\ ta[r].total_segments = 0
        /\ ta[r].result = <<>>

\* C9: without --gui, when --audio_path is missing or names no file, main
\* prints an error and ends without a call, a model or a write; with --gui,
\* main makes no call itself.
C9_NoCallWithoutAudio ==
    \A r \in Runs :
        /\ (~args[r].gui /\ args[r].audio_path \notin {"a.wav", "long.wav"}) =>
            /\ pc[r] \in {"start", "done"}
            /\ pc[r] = "done" => Len(printed[r]) = 1
            /\ calls[r] = <<>>
            /\ ta[r] = IdleFrame
            /\ files[r] \in {NoFile, OldContent}
        /\ args[r].gui =>
            /\ pc[r] \in {"start", "serving"}
            /\ \A i \in 1..Len(calls[r]) : calls[r][i].by # "main"

\* main ended on a path that names no file, and the form was launched.
C9_Witness ==
    /\ args["cli"].audio_path = "missing.wav"
    /\ args["cli"].output = "out.txt"
    /\ pc["cli"] = "done"
    /\ printed["cli"] # <<>>
    /\ pc["gui"] = "serving"

\* C10: when main has ended after transcribing, save_transcription was called
\* exactly when --output was given and the transcription succeeded, and the
\* output file does not hold an error message.
C10_OnlyTranscriptionSaved ==
    \A r \in Runs :
        (~args[r].gui /\ pc[r] = "done" /\ calls[r] # <<>>) =>
            /\ Saves(r) # {} <=>
                /\ args[r].output \notin {NoneStr, ""}
                /\ ~IsErrorString(calls[r][1].ret)
            /\ ~IsErrorString(files[r])

====
